---- MODULE Spec2Model ----
(***************************************************************************)
(* Signal dispatch, delivery at trap return and thread/process exit of     *)
(* the starry core (src/core/src/signal.rs, src/core/src/exit.rs) and the  *)
(* syscall entry points that forward to them (src/api/src/imp/signal.rs).  *)
(*                                                                         *)
(* Representation.  A SigMask (a u32 bit field) is the set of the bit      *)
(* positions that are set, a subset of 0..31.  A Signal is its number.     *)
(* An Option is a set with at most one element: None is {} and Some(x) is  *)
(* {x}.  A u32 table key is the pair <<high half, low half>> of 16-bit     *)
(* halves.  Shifts wrap as in a build without overflow checks.             *)
(***************************************************************************)
EXTENDS Integers, Sequences, FiniteSets, TLC

\* ------------------------------------------------------------------ bounds

\* Most entries the dispatch syscalls may put on all queues together.
MaxPending == 2
\* The count of delivery-loop iterations saturates here.
MaxScan == 1

\* ------------------------------------------------------- signal catalog

SIGKILL == 9
SIGUSR1 == 10
SIGCHLD == 17
SIGCONT == 18
SIGSTOP == 19

\* The variants of enum Signal in the order of their values 1..31, each with
\* the category its doc comment gives.
Signal ==
    << << "SIGHUP", "Term" >>, << "SIGINT", "Term" >>, << "SIGQUIT", "Core" >>,
       << "SIGILL", "Core" >>, << "SIGTRAP", "Core" >>, << "SIGABRT", "Core" >>,
       << "SIGBUS", "Core" >>, << "SIGFPE", "Core" >>, << "SIGKILL", "Term" >>,
       << "SIGUSR1", "Term" >>, << "SIGSEGV", "Core" >>, << "SIGUSR2", "Term" >>,
       << "SIGPIPE", "Term" >>, << "SIGALRM", "Term" >>, << "SIGTERM", "Term" >>,
       << "SIGSTKFLT", "Term" >>, << "SIGCHLD", "Ign" >>, << "SIGCONT", "Cont" >>,
       << "SIGSTOP", "Stop" >>, << "SIGTSTP", "Stop" >>, << "SIGTTIN", "Stop" >>,
       << "SIGTTOU", "Stop" >>, << "SIGURG", "Ign" >>, << "SIGXCPU", "Core" >>,
       << "SIGXFSZ", "Core" >>, << "SIGVTALRM", "Term" >>, << "SIGPROF", "Term" >>,
       << "SIGWINCH", "Ign" >>, << "SIGIO", "Term" >>, << "SIGPWR", "Term" >>,
       << "SIGSYS", "Core" >> >>

\* The bits of the 31 flags the macro declares: 1 << 1 .. 1 << 31.
SigMask_all == 1..31

\* from_u32 with the value reduced like a shift amount: 33 decodes as 1.
from_u32_wrapping(sig) == IF (sig % 32) \in 1..31 THEN {sig % 32} ELSE {}

\* from_u32 with a match arm for 0 as well.
from_u32_with_zero(sig) == IF sig \in 0..31 THEN {sig} ELSE {}

\* Signal::from_u32: Some(variant) for the declared values, None otherwise.
from_u32(sig) == IF sig \in 1..31 THEN {sig} ELSE {}

\* 1 << sig on a u32 with an i32 shift amount: the amount is taken modulo 32.
shl_one(sig) == {sig % 32}

\* SigMask::from_bits: None when a bit outside the declared flags is set.
from_bits(bits) == IF bits \subseteq SigMask_all THEN {bits} ELSE {}

\* SigMask::contains
contains(mask, other) == other \subseteq mask

\* The ! of SigMask: the complement, truncated to the declared flags.
complement(mask) == SigMask_all \ mask

\* The table with SIGCONT given the entry of SIGSTOP.
DEFAULT_ACTIONS_cont_stops ==
    [i \in 1..32 |->
        CASE i \in {1, 18, 24, 29} -> "Ignore"
          [] i \in {4, 5, 6, 7, 8, 9, 12, 25, 26, 32} -> "CoreDump"
          [] i \in 19..23 -> "Stop"
          [] OTHER -> "Terminate"]

\* The table with SigDisposition::Default as its entry 0.
DEFAULT_ACTIONS_zero_default ==
    [i \in 1..32 |->
        CASE i = 1 -> "Default"
          [] i \in {18, 24, 29} -> "Ignore"
          [] i \in {4, 5, 6, 7, 8, 9, 12, 25, 26, 32} -> "CoreDump"
          [] i \in 20..23 -> "Stop"
          [] i = 19 -> "Continue"
          [] OTHER -> "Terminate"]

DEFAULT_ACTIONS ==
    << "Ignore",                                         \* unspecified
       "Terminate", "Terminate", "CoreDump", "CoreDump", \* HUP INT QUIT ILL
       "CoreDump", "CoreDump", "CoreDump", "CoreDump",   \* TRAP ABRT BUS FPE
       "Terminate", "Terminate", "CoreDump", "Terminate",\* KILL USR1 SEGV USR2
       "Terminate", "Terminate", "Terminate", "Terminate",\* PIPE ALRM TERM STKFLT
       "Ignore", "Continue", "Stop", "Stop",             \* CHLD CONT STOP TSTP
       "Stop", "Stop", "Ignore", "CoreDump",             \* TTIN TTOU URG XCPU
       "CoreDump", "Terminate", "Terminate", "Ignore",   \* XFSZ VTALRM PROF WINCH
       "Terminate", "Terminate", "CoreDump" >>           \* IO PWR SYS

\* handle_signal consulting the default table for every disposition.
handle_signal_ignores_override(on_action, signo) ==
    CASE DEFAULT_ACTIONS[signo + 1] = "Ignore" -> "None"
      [] DEFAULT_ACTIONS[signo + 1] = "Default" -> "panic"
      [] OTHER -> DEFAULT_ACTIONS[signo + 1]

\* handle_signal: the OS action of a disposition; "None" is Option::None.
handle_signal(on_action, signo) ==
    CASE on_action = "Default" ->
           (CASE DEFAULT_ACTIONS[signo + 1] = "Ignore" -> "None"
              [] DEFAULT_ACTIONS[signo + 1] = "Default" -> "panic"
              [] DEFAULT_ACTIONS[signo + 1] = "Stop" -> "Stop"
              [] DEFAULT_ACTIONS[signo + 1] = "Continue" -> "Continue"
              [] DEFAULT_ACTIONS[signo + 1] = "Terminate" -> "Terminate"
              [] DEFAULT_ACTIONS[signo + 1] = "CoreDump" -> "CoreDump")
      [] on_action = "CoreDump" -> "CoreDump"
      [] on_action = "Terminate" -> "Terminate"
      [] on_action = "Stop" -> "Stop"
      [] on_action = "Continue" -> "Continue"
      [] on_action = "Ignore" -> "None"

\* ------------------------------------------------- processes and threads

\* The magnitude of x instead of its two's complement: -1 becomes 1.
as_u32_abs(x) == IF x >= 0 THEN << x \div 65536, x % 65536 >>
                 ELSE << (0 - x) \div 65536, (0 - x) % 65536 >>

\* x as u32 for a c_int x, as the pair of its 16-bit halves.
as_u32(x) == IF x >= 0 THEN << x \div 65536, x % 65536 >>
             ELSE << 65536 + (x \div 65536), x % 65536 >>

Tids == {1, 2, 3}
Pids == {1, 3}

\* The process a thread belongs to: threads 1 and 2 to process 1, 3 to 3.
proc_of(t) == IF t = 3 THEN 3 ELSE 1

\* PROCESS_TABLE and THREAD_TABLE: u32 key -> entry.  Neither dispatch,
\* delivery nor exit inserts or removes an entry.
PROCESS_TABLE == [k \in {as_u32(p) : p \in Pids} |-> k[2]]
THREAD_TABLE == [k \in {as_u32(t) : t \in Tids} |-> k[2]]

\* table.get(&key): an Option.
table_get(table, key) == IF key \in DOMAIN table THEN {table[key]} ELSE {}

\* The user address a thread registered to be cleared at exit; 0 is null.
clear_child_tid(t) == IF t = 2 THEN 2 ELSE 0

\* The blocked masks the threads may have been created with: thread 1
\* blocks nothing or SIGUSR1, thread 2 nothing or SIGKILL and SIGUSR1, and
\* thread 3 nothing.
MaskChoices ==
    { b \in [Tids -> SUBSET {SIGKILL, SIGUSR1}] :
        /\ b[1] \in { {}, {SIGUSR1} }
        /\ b[2] \in { {}, {SIGKILL, SIGUSR1} }
        /\ b[3] = {} }

\* The arguments the syscalls are tried with.
SigInputs == {-1, 0, SIGKILL, SIGUSR1, SIGCHLD, 32, 33}
IdInputs == {-1, 1, 2, 3}
\* tgkill forwards to the function tkill forwards to: fewer arguments.
TgkillTids == {1}
TgkillSigs == {0, SIGUSR1, SIGCONT, SIGSTOP}
ExitCodes == {0}
\* how of rt_sigprocmask: SIG_BLOCK, SIG_UNBLOCK, SIG_SETMASK.
SIG_BLOCK == 0
SIG_UNBLOCK == 1
SIG_SETMASK == 2
HowInputs == {0, 1, 2}
\* A user pointer the syscall never reads.
PtrInputs == {1}
\* The signal set the user put at a pointer it hands to rt_sigprocmask.
sigset_at(ptr) == {SIGUSR1}
\* The numbers from_u32 is tried with, and the arguments of handle_signal.
NumberInputs == -33..64
Dispositions == {"Default", "Ignore", "CoreDump", "Terminate", "Stop", "Continue"}
SignoInputs == 0..31

VARIABLES
    blocked,        \* ThreadData.blocked of each thread
    pending,        \* ThreadData.pending of each thread, front first
    shared,         \* ProcessData.shared of each process, front first
    actions,        \* ProcessData.actions: the entries of the 32-entry table
                    \* that are not SigDisposition::Default, by signal number
    threads,        \* the live threads of each process, in enumeration order
    pc,             \* where each thread is
    actions_lock,   \* the holder of each process's actions lock, 0 if free
    scan,           \* iterations of the delivery loop in this invocation
    delivered,      \* the signals each thread's delivery broke out with
    exit_args,      \* the arguments of each thread's do_exit, <<>> before
    proc_exited,    \* how often proc.exit() was called on each process
    group_exiting,  \* whether proc.group_exit() was called on each process
    user_mem,       \* the user words registered as clear_child_tid
    last,           \* the call the latest step made, with its result: a
                    \* syscall of the signal family, or a function of the
                    \* catalog called by itself; NoCall after any other step
    pending_lock,   \* the holder of the lock of each thread's pending
                    \* queue, 0 if free
    shared_lock,    \* the holder of the lock of each process's shared
                    \* queue, 0 if free
    frame           \* the locals of the call each thread is inside, where
                    \* the locks are followed one acquisition at a time

vars == << blocked, pending, shared, actions, threads, pc, actions_lock, scan,
           delivered, exit_args, proc_exited, group_exiting, user_mem, last,
           pending_lock, shared_lock, frame >>

\* The locks of the queues and the locals: the steps that run a whole call
\* at once take and release the queue locks inside the step.
lock_vars == << pending_lock, shared_lock, frame >>

\* VecDeque::push_front in the place of push_back.
push_front(q, s) == << s >> \o q

\* VecDeque::push_back
push_back(q, s) == Append(q, s)

TotalPending ==
    Len(pending[1]) + Len(pending[2]) + Len(pending[3])
        + Len(shared[1]) + Len(shared[3])

NoCall == [op |-> "none", id |-> 0, sig |-> 0, ret |-> "none"]

\* No call in progress: nowhere to push, nothing resolved, no sibling left.
NoFrame == [o |-> [ret |-> "none", dest |-> << >>, signal |-> 0],
            call |-> NoCall, then |-> "none", rest |-> << >>,
            signo |-> 0, on_action |-> "None"]

\* Threads 1 and 2 of process 1 run in user mode.  Thread 3, the only thread
\* of process 3, has already left through exit(0): process 3 has no live
\* thread, but both stay in the tables, which nothing here ever shrinks.
Init ==
    /\ blocked \in MaskChoices
    /\ pending = [t \in Tids |-> << >>]
    /\ shared = [p \in Pids |-> << >>]
    /\ actions = [p \in Pids |-> << >>]
    /\ threads = [p \in Pids |-> IF p = 1 THEN << 1, 2 >> ELSE << >>]
    /\ pc = [t \in Tids |-> IF t = 3 THEN "exited" ELSE "user"]
    /\ actions_lock = [p \in Pids |-> 0]
    /\ scan = [t \in Tids |-> 0]
    /\ delivered = [t \in Tids |-> << >>]
    /\ exit_args = [t \in Tids |-> IF t = 3 THEN << 0, FALSE >> ELSE << >>]
    /\ proc_exited = [p \in Pids |-> IF p = 3 THEN 1 ELSE 0]
    /\ group_exiting = [p \in Pids |-> FALSE]
    /\ user_mem = [a \in {2} |-> 2]
    /\ last = NoCall
    /\ pending_lock = [t \in Tids |-> 0]
    /\ shared_lock = [p \in Pids |-> 0]
    /\ frame = [t \in Tids |-> NoFrame]

\* ---------------------------------------------------------------- dispatch

\* The loop without its test of the blocked mask: the first thread, if any.
first_thread(thrs, i, signal_index) == IF i > Len(thrs) THEN 0 ELSE thrs[i]

\* The loop falling back to the first thread when every thread blocks.
RECURSIVE first_unblocked_or_head(_, _, _)
first_unblocked_or_head(thrs, i, signal_index) ==
    IF i > Len(thrs) THEN (IF Len(thrs) > 0 THEN thrs[1] ELSE 0)
    ELSE IF ~(signal_index \subseteq blocked[thrs[i]]) THEN thrs[i]
    ELSE first_unblocked_or_head(thrs, i + 1, signal_index)

\* The existence probe never recognised.
is_probe_never(sig) == FALSE

\* sig == 0: the existence probe of send_signal_proc.
is_probe(sig) == sig = 0

\* The for loop of send_signal_proc from position i: the first thread whose
\* blocked mask does not contain the signal, 0 when the loop runs out.
RECURSIVE first_unblocked(_, _, _)
first_unblocked(thrs, i, signal_index) ==
    IF i > Len(thrs) THEN 0
    ELSE IF ~contains(blocked[thrs[i]], signal_index) THEN thrs[i]
    ELSE first_unblocked(thrs, i + 1, signal_index)

\* What a dispatch call returns and where it pushes: dest is <<>> (nowhere),
\* <<"pending", tid>> or <<"shared", pid>>.
Outcome(ret, dest, signal) == [ret |-> ret, dest |-> dest, signal |-> signal]

send_signal_proc(pid, sig) ==
    LET cur_proc == table_get(PROCESS_TABLE, as_u32(pid)) IN
    IF cur_proc = {} THEN Outcome("ESRCH", << >>, 0)
    ELSE IF is_probe(sig) THEN Outcome("Ok", << >>, 0)
    ELSE IF from_bits(shl_one(sig)) = {} THEN Outcome("EINVAL", << >>, 0)
    ELSE IF from_u32(sig) = {} THEN Outcome("EINVAL", << >>, 0)
    ELSE
        LET p == CHOOSE x \in cur_proc : TRUE
            signal_index == CHOOSE m \in from_bits(shl_one(sig)) : TRUE
            signal == CHOOSE s \in from_u32(sig) : TRUE
            thread == first_unblocked(threads[p], 1, signal_index)
        IN  IF thread # 0 THEN Outcome("Ok", << "pending", thread >>, signal)
            ELSE Outcome("Ok", << "shared", p >>, signal)

\* send_signal_thread pushing the number as it comes, unvalidated.
send_signal_thread_unchecked(tid, sig) ==
    LET thread == table_get(THREAD_TABLE, as_u32(tid)) IN
    IF thread = {} THEN Outcome("ESRCH", << >>, 0)
    ELSE Outcome("Ok", << "pending", CHOOSE x \in thread : TRUE >>, sig)

send_signal_thread(tid, sig) ==
    LET thread == table_get(THREAD_TABLE, as_u32(tid)) IN
    IF thread = {} THEN Outcome("ESRCH", << >>, 0)
    ELSE IF from_bits(shl_one(sig)) = {} THEN Outcome("EINVAL", << >>, 0)
    ELSE IF from_u32(sig) = {} THEN Outcome("EINVAL", << >>, 0)
    ELSE
        LET t == CHOOSE x \in thread : TRUE
            signal_index == CHOOSE m \in from_bits(shl_one(sig)) : TRUE
            signal == CHOOSE s \in from_u32(sig) : TRUE
        IN  IF ~contains(blocked[t], signal_index)
            THEN Outcome("Ok", << "pending", t >>, signal)
            ELSE Outcome("EINVAL", << >>, 0)

\* The queues after the push of an outcome.
pending_after(o) ==
    IF o.dest # << >> /\ o.dest[1] = "pending"
    THEN [pending EXCEPT ![o.dest[2]] = push_back(@, o.signal)]
    ELSE pending

shared_after(o) ==
    IF o.dest # << >> /\ o.dest[1] = "shared"
    THEN [shared EXCEPT ![o.dest[2]] = push_back(@, o.signal)]
    ELSE shared

\* A thread in user mode traps into a syscall of the signal family; the
\* syscall runs to its return and the trap path goes on to the post-trap hook.
Dispatched(t, op, id, sig, o) ==
    /\ pc[t] = "user"
    /\ TotalPending < MaxPending
    /\ UNCHANGED lock_vars
    /\ pending' = pending_after(o)
    /\ shared' = shared_after(o)
    /\ last' = [op |-> op, id |-> id, sig |-> sig, ret |-> o.ret]
    /\ pc' = [pc EXCEPT ![t] = "post_trap"]
    /\ UNCHANGED << blocked, actions, threads, actions_lock, scan, delivered,
                    exit_args, proc_exited, group_exiting, user_mem >>

sys_rt_kill(t, pid, sig) ==
    Dispatched(t, "kill", pid, sig, send_signal_proc(pid, sig))

sys_tkill(t, tid, sig) ==
    Dispatched(t, "tkill", tid, sig, send_signal_thread(tid, sig))

\* tgkill failing with ESRCH when tid is no thread of process tgid.
sys_tgkill_checks_tgid(t, tgid, tid, sig) ==
    Dispatched(t, "tgkill", tid, sig,
               IF tid \in Tids /\ proc_of(tid) = tgid
               THEN send_signal_thread(tid, sig)
               ELSE Outcome("ESRCH", << >>, 0))

sys_tgkill(t, tgid, tid, sig) ==
    Dispatched(t, "tgkill", tid, sig, send_signal_thread(tid, sig))

\* rt_sigprocmask applying its argument as the contract has it.
NoOpSyscall_applies(t, op, a, b) ==
    /\ pc[t] = "user"
    /\ UNCHANGED lock_vars
    /\ last' = [op |-> op, id |-> a, sig |-> b, ret |-> "Ok"]
    /\ pc' = [pc EXCEPT ![t] = "post_trap"]
    /\ blocked' = IF op = "rt_sigprocmask"
                  THEN [blocked EXCEPT ![t] =
                           CASE a = SIG_BLOCK -> @ \cup sigset_at(b)
                             [] a = SIG_UNBLOCK -> @ \ sigset_at(b)
                             [] OTHER -> sigset_at(b)]
                  ELSE blocked
    /\ UNCHANGED << pending, shared, actions, threads, actions_lock,
                    scan, delivered, exit_args, proc_exited, group_exiting,
                    user_mem >>

\* Both return Ok(0) and touch nothing; the pointers are never read.
NoOpSyscall(t, op, a, b) ==
    /\ pc[t] = "user"
    /\ UNCHANGED lock_vars
    /\ last' = [op |-> op, id |-> a, sig |-> b, ret |-> "Ok"]
    /\ pc' = [pc EXCEPT ![t] = "post_trap"]
    /\ UNCHANGED << blocked, pending, shared, actions, threads, actions_lock,
                    scan, delivered, exit_args, proc_exited, group_exiting,
                    user_mem >>

sys_rt_sigprocmask(t, how, set) == NoOpSyscall(t, "rt_sigprocmask", how, set)

sys_rt_sigaction(t, signum, act) == NoOpSyscall(t, "rt_sigaction", signum, act)

\* ---------------------------------------------------------------- delivery

\* A sequence without the element x.
without(s, x) == SelectSeq(s, LAMBDA y : y # x)

\* do_exit calling proc.exit() whatever thr.exit returns.
do_exit_marks_always(t, exit_code, group_exit) ==
    LET p == proc_of(t)
        rest == without(threads[p], t)
    IN  /\ user_mem' = IF clear_child_tid(t) # 0
                       THEN [user_mem EXCEPT ![clear_child_tid(t)] = 0]
                       ELSE user_mem
        /\ threads' = [threads EXCEPT ![p] = rest]
        /\ proc_exited' = [proc_exited EXCEPT ![p] = @ + 1]
        /\ exit_args' = [exit_args EXCEPT ![t] = << exit_code, group_exit >>]
        /\ pc' = [pc EXCEPT ![t] = "do_exit_group"]

\* do_exit(exit_code, group_exit) up to and including thr.exit and proc.exit:
\* the registered user word is cleared, the thread leaves its process, and
\* the process is marked exited when no thread is left.
do_exit(t, exit_code, group_exit) ==
    LET p == proc_of(t)
        rest == without(threads[p], t)
    IN  /\ user_mem' = IF clear_child_tid(t) # 0
                       THEN [user_mem EXCEPT ![clear_child_tid(t)] = 0]
                       ELSE user_mem
        /\ threads' = [threads EXCEPT ![p] = rest]
        /\ proc_exited' = [proc_exited EXCEPT
               ![p] = IF Len(rest) = 0 THEN @ + 1 ELSE @]
        /\ exit_args' = [exit_args EXCEPT ![t] = << exit_code, group_exit >>]
        /\ pc' = [pc EXCEPT ![t] = "do_exit_group"]

\* actions[signo]: the entry of the process's table, Default unless set.
action_at(p, signo) ==
    IF signo \in DOMAIN actions[p] THEN actions[p][signo] ELSE "Default"

\* The exit code check_signals hands to do_exit for an action.
exit_code_of(on_action, signo) ==
    IF on_action \in {"CoreDump", "Terminate"} THEN 128 + signo ELSE 1

\* The loop returning on an empty queue with the guard of actions kept.
loop_iteration_keeps_lock(t) ==
    LET p == proc_of(t)
        mask == complement(blocked[t])
    IN  IF pending[t] = << >>
        THEN \* return false: the guard of actions is dropped
             /\ actions_lock' = [actions_lock EXCEPT ![p] = t]
             /\ pc' = [pc EXCEPT ![t] = "user"]
             /\ UNCHANGED << scan, delivered, exit_args, threads, proc_exited,
                             user_mem >>
        ELSE LET signo == Head(pending[t])
                 bit == CHOOSE m \in from_bits(shl_one(signo)) : TRUE
                 on_action == handle_signal(action_at(p, signo), signo)
             IN  IF contains(mask, bit) \/ on_action = "None"
                 THEN \* continue, or no action: the loop goes round
                      /\ actions_lock' = [actions_lock EXCEPT ![p] = t]
                      /\ pc' = [pc EXCEPT ![t] = "check_signals"]
                      /\ scan' = [scan EXCEPT
                             ![t] = IF @ < MaxScan THEN @ + 1 ELSE @]
                      /\ UNCHANGED << delivered, exit_args, threads,
                                      proc_exited, user_mem >>
                 ELSE \* break (signo, on_action); drop(actions); match
                      /\ delivered' = [delivered EXCEPT ![t] = Append(@, signo)]
                      /\ actions_lock' = [actions_lock EXCEPT ![p] = 0]
                      /\ UNCHANGED scan
                      /\ IF on_action \in {"CoreDump", "Terminate", "Stop"}
                         THEN do_exit(t, exit_code_of(on_action, signo), TRUE)
                         ELSE \* Continue, Handler: unimplemented!()
                              /\ pc' = [pc EXCEPT ![t] = "panic"]
                              /\ UNCHANGED << exit_args, threads, proc_exited,
                                              user_mem >>

\* The loop with the Continue and Handler arms returning to the trap path
\* in the place of unimplemented!().
loop_iteration_continue_returns(t) ==
    LET p == proc_of(t)
        mask == complement(blocked[t])
    IN  IF pending[t] = << >>
        THEN /\ actions_lock' = [actions_lock EXCEPT ![p] = 0]
             /\ pc' = [pc EXCEPT ![t] = "user"]
             /\ UNCHANGED << scan, delivered, exit_args, threads, proc_exited,
                             user_mem >>
        ELSE LET signo == Head(pending[t])
                 bit == CHOOSE m \in from_bits(shl_one(signo)) : TRUE
                 on_action == handle_signal(action_at(p, signo), signo)
             IN  IF contains(mask, bit) \/ on_action = "None"
                 THEN /\ actions_lock' = [actions_lock EXCEPT ![p] = t]
                      /\ pc' = [pc EXCEPT ![t] = "check_signals"]
                      /\ scan' = [scan EXCEPT
                             ![t] = IF @ < MaxScan THEN @ + 1 ELSE @]
                      /\ UNCHANGED << delivered, exit_args, threads,
                                      proc_exited, user_mem >>
                 ELSE /\ delivered' = [delivered EXCEPT ![t] = Append(@, signo)]
                      /\ actions_lock' = [actions_lock EXCEPT ![p] = 0]
                      /\ UNCHANGED scan
                      /\ IF on_action \in {"CoreDump", "Terminate", "Stop"}
                         THEN do_exit(t, exit_code_of(on_action, signo), TRUE)
                         ELSE \* Continue, Handler: return true
                              /\ pc' = [pc EXCEPT ![t] = "user"]
                              /\ UNCHANGED << exit_args, threads, proc_exited,
                                              user_mem >>

\* One iteration of the loop of check_signals, by the holder of the actions
\* lock, and what follows the loop when the iteration leaves it.
loop_iteration(t) ==
    LET p == proc_of(t)
        mask == complement(blocked[t])
    IN  IF pending[t] = << >>
        THEN \* return false: the guard of actions is dropped
             /\ actions_lock' = [actions_lock EXCEPT ![p] = 0]
             /\ pc' = [pc EXCEPT ![t] = "user"]
             /\ UNCHANGED << scan, delivered, exit_args, threads, proc_exited,
                             user_mem >>
        ELSE LET signo == Head(pending[t])
                 bit == CHOOSE m \in from_bits(shl_one(signo)) : TRUE
                 on_action == handle_signal(action_at(p, signo), signo)
             IN  IF contains(mask, bit) \/ on_action = "None"
                 THEN \* continue, or no action: the loop goes round
                      /\ actions_lock' = [actions_lock EXCEPT ![p] = t]
                      /\ pc' = [pc EXCEPT ![t] = "check_signals"]
                      /\ scan' = [scan EXCEPT
                             ![t] = IF @ < MaxScan THEN @ + 1 ELSE @]
                      /\ UNCHANGED << delivered, exit_args, threads,
                                      proc_exited, user_mem >>
                 ELSE \* break (signo, on_action); drop(actions); match
                      /\ delivered' = [delivered EXCEPT ![t] = Append(@, signo)]
                      /\ actions_lock' = [actions_lock EXCEPT ![p] = 0]
                      /\ UNCHANGED scan
                      /\ IF on_action \in {"CoreDump", "Terminate", "Stop"}
                         THEN do_exit(t, exit_code_of(on_action, signo), TRUE)
                         ELSE \* Continue, Handler: unimplemented!()
                              /\ pc' = [pc EXCEPT ![t] = "panic"]
                              /\ UNCHANGED << exit_args, threads, proc_exited,
                                              user_mem >>

\* post_trap_callback calling check_signals whatever from_user is.
post_trap_callback_always(t, from_user) ==
    /\ pc[t] = "post_trap"
    /\ actions_lock[proc_of(t)] = 0
    /\ scan[t] = 0
    /\ loop_iteration(t)
    /\ UNCHANGED lock_vars
    /\ last' = IF from_user THEN NoCall
               ELSE [op |-> "post_trap_callback", id |-> t, sig |-> 0,
                     ret |-> "kernel"]
    /\ UNCHANGED << blocked, pending, shared, actions, group_exiting >>

\* post_trap_callback: delivery runs only for a trap that came from user
\* mode.  check_signals takes the process's actions lock, waiting while a
\* sibling holds it, and runs the first iteration of its loop.
post_trap_callback(t, from_user) ==
    IF from_user
    THEN /\ pc[t] = "post_trap"
         /\ actions_lock[proc_of(t)] = 0
         /\ scan[t] = 0
         /\ loop_iteration(t)
         /\ last' = NoCall
         /\ UNCHANGED lock_vars
         /\ UNCHANGED << blocked, pending, shared, actions, group_exiting >>
    ELSE \* a trap taken inside the kernel: return before check_signals
         /\ pc[t] \in {"post_trap", "check_signals", "do_exit_group"}
         /\ last' = [op |-> "post_trap_callback", id |-> t, sig |-> 0,
                     ret |-> "kernel"]
         /\ UNCHANGED << blocked, pending, shared, actions, threads, pc,
                         actions_lock, scan, delivered, exit_args,
                         proc_exited, group_exiting, user_mem >>
         /\ UNCHANGED lock_vars

\* A further iteration of the loop of check_signals.
check_signals(t) ==
    /\ pc[t] = "check_signals"
    /\ loop_iteration(t)
    /\ UNCHANGED lock_vars
    /\ last' = NoCall
    /\ UNCHANGED << blocked, pending, shared, actions, group_exiting >>

\* -------------------------------------------------------------------- exit

\* exit and exit_group: a thread in user mode calls do_exit.
sys_exit(t, exit_code, group_exit) ==
    /\ pc[t] = "user"
    /\ do_exit(t, exit_code, group_exit)
    /\ UNCHANGED lock_vars
    /\ last' = NoCall
    /\ UNCHANGED << blocked, pending, shared, actions, actions_lock, scan,
                    delivered, group_exiting >>

\* The fan-out given up at the first raise that fails, as with the ? operator.
RECURSIVE kill_each_until_error(_, _, _)
kill_each_until_error(thrs, i, q) ==
    IF i > Len(thrs) THEN q
    ELSE LET o == send_signal_thread(thrs[i], SIGKILL) IN
         IF o.dest # << >>
         THEN kill_each_until_error(thrs, i + 1,
                  [q EXCEPT ![o.dest[2]] = push_back(@, o.signal)])
         ELSE q

\* The queues after send_signal_thread(tid, SIGKILL) for each thread of thrs.
RECURSIVE kill_each(_, _, _)
kill_each(thrs, i, q) ==
    IF i > Len(thrs) THEN q
    ELSE LET o == send_signal_thread(thrs[i], SIGKILL) IN
         kill_each(thrs, i + 1,
                   IF o.dest # << >>
                   THEN [q EXCEPT ![o.dest[2]] = push_back(@, o.signal)]
                   ELSE q)

\* do_exit from the group_exit test to axtask::exit.
do_exit_group(t) ==
    /\ pc[t] = "do_exit_group"
    /\ LET p == proc_of(t) IN
       IF exit_args[t][2]
       THEN /\ group_exiting' = [group_exiting EXCEPT ![p] = TRUE]
            /\ pending' = kill_each(threads[p], 1, pending)
       ELSE UNCHANGED << group_exiting, pending >>
    /\ pc' = [pc EXCEPT ![t] = "exited"]
    /\ last' = NoCall
    /\ UNCHANGED lock_vars
    /\ UNCHANGED << blocked, shared, actions, threads, actions_lock, scan,
                    delivered, exit_args, proc_exited, user_mem >>

\* --------------------------------------------------------------------- next

\* A trap taken inside the kernel makes post_trap_callback return at once and
\* changes nothing; the traps here are the ones from user mode, and
\* DeliverySpec has both kinds.
Next ==
    \/ \E t \in Tids, pid \in IdInputs, sig \in SigInputs : sys_rt_kill(t, pid, sig)
    \/ \E t \in Tids, tid \in IdInputs, sig \in SigInputs : sys_tkill(t, tid, sig)
    \/ \E t \in Tids, tgid \in Pids, tid \in TgkillTids, sig \in TgkillSigs :
           sys_tgkill(t, tgid, tid, sig)
    \/ \E t \in Tids, how \in HowInputs, set \in PtrInputs :
           sys_rt_sigprocmask(t, how, set)
    \/ \E t \in Tids, signum \in {SIGUSR1}, act \in PtrInputs :
           sys_rt_sigaction(t, signum, act)
    \/ \E t \in Tids : post_trap_callback(t, TRUE)
    \/ \E t \in Tids : check_signals(t)
    \/ \E t \in Tids, c \in ExitCodes, g \in BOOLEAN : sys_exit(t, c, g)
    \/ \E t \in Tids : do_exit_group(t)

Spec == Init /\ [][Next]_vars

\* The steps of thread t inside the kernel: delivery at the trap return, the
\* iterations of its loop, and the rest of do_exit.
KernelStep(t) ==
    \/ post_trap_callback(t, TRUE)
    \/ check_signals(t)
    \/ do_exit_group(t)

\* A trap of thread t from user mode.
UserTrap(t) ==
    \E how \in HowInputs, set \in PtrInputs : sys_rt_sigprocmask(t, how, set)

\* The host scheduler is preemptive and fair: a thread that can go on in the
\* kernel is not passed over forever, and a thread that stays in user mode
\* traps again.
FairSpec ==
    Spec /\ \A t \in Tids : WF_vars(KernelStep(t)) /\ WF_vars(UserTrap(t))

\* ----------------------------------------------- the catalog by itself

\* Signal::from_u32(n) called on a number.
call_from_u32(n) ==
    /\ last' = [op |-> "from_u32", id |-> 0, sig |-> n, ret |-> from_u32(n)]
    /\ UNCHANGED lock_vars
    /\ UNCHANGED << blocked, pending, shared, actions, threads, pc,
                    actions_lock, scan, delivered, exit_args, proc_exited,
                    group_exiting, user_mem >>

\* handle_signal(&SignalAction { disposition }, signo) called on a pair.
call_handle_signal(disposition, signo) ==
    /\ last' = [op |-> "handle_signal", id |-> disposition, sig |-> signo,
                ret |-> handle_signal(disposition, signo)]
    /\ UNCHANGED lock_vars
    /\ UNCHANGED << blocked, pending, shared, actions, threads, pc,
                    actions_lock, scan, delivered, exit_args, proc_exited,
                    group_exiting, user_mem >>

CatalogNext ==
    \/ \E n \in NumberInputs : call_from_u32(n)
    \/ \E d \in Dispositions, signo \in SignoInputs : call_handle_signal(d, signo)

CatalogSpec == Init /\ [][CatalogNext]_vars

\* --------------------------------------------- check_signals by itself

\* The signals, queues and masks check_signals is entered with.
DeliverySigs == {SIGKILL, SIGUSR1, SIGCHLD, SIGCONT, SIGSTOP}
QueueInputs == UNION {[1..n -> DeliverySigs] : n \in 0..MaxPending}
MaskInputs == SUBSET DeliverySigs

\* Thread 1 has trapped from user mode and is about to enter check_signals,
\* with any queue and any blocked mask; the rest is as in Init.
DeliveryInit ==
    /\ blocked \in {[t \in Tids |-> IF t = 1 THEN m ELSE {}] : m \in MaskInputs}
    /\ pending \in {[t \in Tids |-> IF t = 1 THEN q ELSE << >>] :
                         q \in QueueInputs}
    /\ shared = [p \in Pids |-> << >>]
    /\ actions = [p \in Pids |-> << >>]
    /\ threads = [p \in Pids |-> IF p = 1 THEN << 1, 2 >> ELSE << >>]
    /\ pc = [t \in Tids |-> CASE t = 1 -> "post_trap"
                              [] t = 2 -> "user"
                              [] t = 3 -> "exited"]
    /\ actions_lock = [p \in Pids |-> 0]
    /\ scan = [t \in Tids |-> 0]
    /\ delivered = [t \in Tids |-> << >>]
    /\ exit_args = [t \in Tids |-> IF t = 3 THEN << 0, FALSE >> ELSE << >>]
    /\ proc_exited = [p \in Pids |-> IF p = 3 THEN 1 ELSE 0]
    /\ group_exiting = [p \in Pids |-> FALSE]
    /\ user_mem = [a \in {2} |-> 2]
    /\ last = NoCall
    /\ pending_lock = [t \in Tids |-> 0]
    /\ shared_lock = [p \in Pids |-> 0]
    /\ frame = [t \in Tids |-> NoFrame]

DeliveryNext ==
    \/ \E t \in Tids, from_user \in BOOLEAN : post_trap_callback(t, from_user)
    \/ \E t \in Tids : check_signals(t)
    \/ \E t \in Tids : do_exit_group(t)

DeliverySpec == DeliveryInit /\ [][DeliveryNext]_vars

\* ------------------------------------------------- the locks, step by step

\* The arguments kill and tkill are tried with where the locks are followed.
LockIds == {-1, 1, 2, 3}
LockSigs == {0, SIGKILL}

\* The holder of the lock of the queue a dispatch call pushes to.
lock_holder(dest) ==
    IF dest[1] = "pending" THEN pending_lock[dest[2]] ELSE shared_lock[dest[2]]

\* Dispatch calls that have chosen their queue and not yet pushed.
InFlight ==
    Cardinality({t \in Tids : pc[t] \in {"push_lock", "push_back"}
                              /\ frame[t].then = "post_trap"})

\* send_signal_proc and send_signal_thread up to the lock() of the queue
\* they push to; a call that pushes nowhere returns here.
send_signal_call(t, op, id, sig) ==
    LET o == IF op = "kill" THEN send_signal_proc(id, sig)
             ELSE send_signal_thread(id, sig)
        call == [op |-> op, id |-> id, sig |-> sig, ret |-> o.ret]
    IN  /\ pc[t] = "user"
        /\ TotalPending + InFlight < MaxPending
        /\ IF o.dest = << >>
           THEN /\ pc' = [pc EXCEPT ![t] = "post_trap"]
                /\ last' = call
                /\ UNCHANGED frame
           ELSE /\ pc' = [pc EXCEPT ![t] = "push_lock"]
                /\ last' = NoCall
                /\ frame' = [frame EXCEPT ![t] =
                       [NoFrame EXCEPT !.o = o, !.call = call,
                                       !.then = "post_trap"]]
        /\ UNCHANGED << blocked, pending, shared, actions, threads,
                        actions_lock, scan, delivered, exit_args, proc_exited,
                        group_exiting, user_mem, pending_lock, shared_lock >>

\* lock_queue taking the shared lock together with a thread's pending lock.
lock_queue_takes_shared(t) ==
    LET dest == frame[t].o.dest IN
    /\ pc[t] = "push_lock"
    /\ lock_holder(dest) = 0
    /\ IF dest[1] = "pending"
       THEN /\ pending_lock' = [pending_lock EXCEPT ![dest[2]] = t]
            /\ shared_lock' = [shared_lock EXCEPT ![proc_of(dest[2])] = t]
       ELSE /\ shared_lock' = [shared_lock EXCEPT ![dest[2]] = t]
            /\ UNCHANGED pending_lock
    /\ pc' = [pc EXCEPT ![t] = "push_back"]
    /\ last' = NoCall
    /\ UNCHANGED << blocked, pending, shared, actions, threads, actions_lock,
                    scan, delivered, exit_args, proc_exited, group_exiting,
                    user_mem, frame >>

\* thread_data.pending.lock() and proc_data.shared.lock(): the caller waits
\* while another thread holds the lock.
lock_queue(t) ==
    LET dest == frame[t].o.dest IN
    /\ pc[t] = "push_lock"
    /\ lock_holder(dest) = 0
    /\ IF dest[1] = "pending"
       THEN /\ pending_lock' = [pending_lock EXCEPT ![dest[2]] = t]
            /\ UNCHANGED shared_lock
       ELSE /\ shared_lock' = [shared_lock EXCEPT ![dest[2]] = t]
            /\ UNCHANGED pending_lock
    /\ pc' = [pc EXCEPT ![t] = "push_back"]
    /\ last' = NoCall
    /\ UNCHANGED << blocked, pending, shared, actions, threads, actions_lock,
                    scan, delivered, exit_args, proc_exited, group_exiting,
                    user_mem, frame >>

\* push_back_unlock returning with the guard of the queue still alive.
push_back_keeps_guard(t) ==
    LET o == frame[t].o IN
    /\ pc[t] = "push_back"
    /\ pending' = pending_after(o)
    /\ shared' = shared_after(o)
    /\ pc' = [pc EXCEPT ![t] = frame[t].then]
    /\ IF frame[t].then = "post_trap"
       THEN last' = frame[t].call /\ frame' = [frame EXCEPT ![t] = NoFrame]
       ELSE last' = NoCall
            /\ frame' = [frame EXCEPT ![t] = [NoFrame EXCEPT
                             !.then = "fan_out", !.rest = frame[t].rest]]
    /\ UNCHANGED << blocked, actions, threads, actions_lock, scan, delivered,
                    exit_args, proc_exited, group_exiting, user_mem,
                    pending_lock, shared_lock >>

\* push_back(signal) under the lock, and the drop of the guard at the end of
\* the statement; the call returns to the trap path or to the fan-out.
push_back_unlock(t) ==
    LET o == frame[t].o IN
    /\ pc[t] = "push_back"
    /\ pending' = pending_after(o)
    /\ shared' = shared_after(o)
    /\ IF o.dest[1] = "pending"
       THEN /\ pending_lock' = [pending_lock EXCEPT ![o.dest[2]] = 0]
            /\ UNCHANGED shared_lock
       ELSE /\ shared_lock' = [shared_lock EXCEPT ![o.dest[2]] = 0]
            /\ UNCHANGED pending_lock
    /\ pc' = [pc EXCEPT ![t] = frame[t].then]
    /\ IF frame[t].then = "post_trap"
       THEN last' = frame[t].call /\ frame' = [frame EXCEPT ![t] = NoFrame]
       ELSE last' = NoCall
            /\ frame' = [frame EXCEPT ![t] = [NoFrame EXCEPT
                             !.then = "fan_out", !.rest = frame[t].rest]]
    /\ UNCHANGED << blocked, actions, threads, actions_lock, scan, delivered,
                    exit_args, proc_exited, group_exiting, user_mem >>

\* check_signals at process_data().actions.lock(), after a trap from user
\* mode.
lock_actions(t) ==
    /\ pc[t] = "post_trap"
    /\ actions_lock[proc_of(t)] = 0
    /\ actions_lock' = [actions_lock EXCEPT ![proc_of(t)] = t]
    /\ pc' = [pc EXCEPT ![t] = "loop"]
    /\ last' = NoCall
    /\ UNCHANGED << blocked, pending, shared, actions, threads, scan,
                    delivered, exit_args, proc_exited, group_exiting,
                    user_mem, pending_lock, shared_lock, frame >>

\* The head of the loop: data.pending.lock().
lock_pending(t) ==
    /\ pc[t] = "loop"
    /\ pending_lock[t] = 0
    /\ pending_lock' = [pending_lock EXCEPT ![t] = t]
    /\ pc' = [pc EXCEPT ![t] = "front"]
    /\ last' = NoCall
    /\ UNCHANGED << blocked, pending, shared, actions, threads, actions_lock,
                    scan, delivered, exit_args, proc_exited, group_exiting,
                    user_mem, shared_lock, frame >>

\* loop_body leaving the loop without drop(actions).
loop_body_keeps_actions(t) ==
    LET p == proc_of(t)
        mask == complement(blocked[t])
    IN  /\ pc[t] = "front"
        /\ pending_lock' = [pending_lock EXCEPT ![t] = 0]
        /\ last' = NoCall
        /\ UNCHANGED << blocked, pending, shared, actions, threads, scan,
                        exit_args, proc_exited, group_exiting, user_mem,
                        shared_lock >>
        /\ IF pending[t] = << >>
           THEN /\ actions_lock' = [actions_lock EXCEPT ![p] = 0]
                /\ pc' = [pc EXCEPT ![t] = "user"]
                /\ UNCHANGED << delivered, frame >>
           ELSE LET signo == Head(pending[t])
                    bit == CHOOSE m \in from_bits(shl_one(signo)) : TRUE
                    on_action == handle_signal(action_at(p, signo), signo)
                IN  IF contains(mask, bit) \/ on_action = "None"
                    THEN /\ pc' = [pc EXCEPT ![t] = "loop"]
                         /\ UNCHANGED << actions_lock, delivered, frame >>
                    ELSE /\ UNCHANGED actions_lock
                         /\ delivered' = [delivered EXCEPT
                                ![t] = Append(@, signo)]
                         /\ frame' = [frame EXCEPT ![t] = [NoFrame EXCEPT
                                !.signo = signo, !.on_action = on_action]]
                         /\ pc' = [pc EXCEPT ![t] = "match"]

\* The body of the loop under both locks.  The guard of pending is dropped
\* where the iteration ends: at return false, which drops the guard of
\* actions too, at continue and at the end of the body, and at break, which
\* drop(actions) follows.
loop_body(t) ==
    LET p == proc_of(t)
        mask == complement(blocked[t])
    IN  /\ pc[t] = "front"
        /\ pending_lock' = [pending_lock EXCEPT ![t] = 0]
        /\ last' = NoCall
        /\ UNCHANGED << blocked, pending, shared, actions, threads, scan,
                        exit_args, proc_exited, group_exiting, user_mem,
                        shared_lock >>
        /\ IF pending[t] = << >>
           THEN /\ actions_lock' = [actions_lock EXCEPT ![p] = 0]
                /\ pc' = [pc EXCEPT ![t] = "user"]
                /\ UNCHANGED << delivered, frame >>
           ELSE LET signo == Head(pending[t])
                    bit == CHOOSE m \in from_bits(shl_one(signo)) : TRUE
                    on_action == handle_signal(action_at(p, signo), signo)
                IN  IF contains(mask, bit) \/ on_action = "None"
                    THEN /\ pc' = [pc EXCEPT ![t] = "loop"]
                         /\ UNCHANGED << actions_lock, delivered, frame >>
                    ELSE /\ actions_lock' = [actions_lock EXCEPT ![p] = 0]
                         /\ delivered' = [delivered EXCEPT
                                ![t] = Append(@, signo)]
                         /\ frame' = [frame EXCEPT ![t] = [NoFrame EXCEPT
                                !.signo = signo, !.on_action = on_action]]
                         /\ pc' = [pc EXCEPT ![t] = "match"]

\* match on_action: do_exit up to proc.exit(), or unimplemented!().
match_action(t) ==
    /\ pc[t] = "match"
    /\ IF frame[t].on_action \in {"CoreDump", "Terminate", "Stop"}
       THEN do_exit(t, exit_code_of(frame[t].on_action, frame[t].signo), TRUE)
       ELSE /\ pc' = [pc EXCEPT ![t] = "panic"]
            /\ UNCHANGED << exit_args, threads, proc_exited, user_mem >>
    /\ frame' = [frame EXCEPT ![t] = NoFrame]
    /\ last' = NoCall
    /\ UNCHANGED << blocked, pending, shared, actions, actions_lock, scan,
                    delivered, group_exiting, pending_lock, shared_lock >>

\* do_exit at if group_exit: proc.group_exit() and proc.threads(), or
\* axtask::exit at once.
group_exit_test(t) ==
    /\ pc[t] = "do_exit_group"
    /\ IF exit_args[t][2]
       THEN /\ group_exiting' = [group_exiting EXCEPT ![proc_of(t)] = TRUE]
            /\ frame' = [frame EXCEPT ![t] = [NoFrame EXCEPT
                   !.then = "fan_out", !.rest = threads[proc_of(t)]]]
            /\ pc' = [pc EXCEPT ![t] = "fan_out"]
       ELSE /\ pc' = [pc EXCEPT ![t] = "exited"]
            /\ UNCHANGED << group_exiting, frame >>
    /\ last' = NoCall
    /\ UNCHANGED << blocked, pending, shared, actions, threads, actions_lock,
                    scan, delivered, exit_args, proc_exited, user_mem,
                    pending_lock, shared_lock >>

\* One turn of the for loop of do_exit: send_signal_thread(tid, SIGKILL) up
\* to its lock(), its result dropped; axtask::exit when the list is done.
fan_out(t) ==
    /\ pc[t] = "fan_out"
    /\ IF frame[t].rest = << >>
       THEN /\ pc' = [pc EXCEPT ![t] = "exited"]
            /\ frame' = [frame EXCEPT ![t] = NoFrame]
       ELSE LET o == send_signal_thread(Head(frame[t].rest), SIGKILL) IN
            /\ frame' = [frame EXCEPT ![t] = [NoFrame EXCEPT
                   !.o = IF o.dest = << >> THEN NoFrame.o ELSE o,
                   !.then = "fan_out", !.rest = Tail(frame[t].rest)]]
            /\ pc' = [pc EXCEPT ![t] =
                   IF o.dest = << >> THEN "fan_out" ELSE "push_lock"]
    /\ last' = NoCall
    /\ UNCHANGED << blocked, pending, shared, actions, threads, actions_lock,
                    scan, delivered, exit_args, proc_exited, group_exiting,
                    user_mem, pending_lock, shared_lock >>

LockNext ==
    \/ \E t \in Tids, op \in {"kill", "tkill"}, id \in LockIds,
          sig \in LockSigs : send_signal_call(t, op, id, sig)
    \/ \E t \in Tids : lock_queue(t)
    \/ \E t \in Tids : push_back_unlock(t)
    \/ \E t \in Tids : lock_actions(t)
    \/ \E t \in Tids : lock_pending(t)
    \/ \E t \in Tids : loop_body(t)
    \/ \E t \in Tids : match_action(t)
    \/ \E t \in Tids, c \in ExitCodes, g \in BOOLEAN : sys_exit(t, c, g)
    \/ \E t \in Tids : group_exit_test(t)
    \/ \E t \in Tids : fan_out(t)

\* Thread 1 is at a trap return with any queue and any blocked mask, thread
\* 2 in user mode, and every lock is free.
LockSpec == DeliveryInit /\ [][LockNext]_vars

\* ------------------------------------------------------------------ claims

\* The step made a dispatch call: kill, tkill or tgkill.
Raised == last'.op \in {"kill", "tkill", "tgkill"}
RaisedOnProcess == last'.op = "kill"
RaisedOnThread == last'.op \in {"tkill", "tgkill"}

\* The step changed no pending queue.
QueuesUnchanged == pending' = pending /\ shared' = shared

\* The valid signal numbers.
ValidSig == 1..31

\* The entries of a queue.
Entries(q) == {q[i] : i \in 1..Len(q)}

\* The positions of the threads of process p that do not block sig.
Unblocking(p, sig) == {i \in 1..Len(threads[p]) : sig \notin blocked[threads[p][i]]}

\* The least element of a non-empty set of numbers.
Least(S) == CHOOSE x \in S : \A y \in S : x <= y

\* C1: a dispatch call whose pid is not in the process table, or whose tid is
\* not in the thread table, fails with ESRCH for every signal number and
\* changes no pending queue.
C1_NoSuchTarget ==
    [][ (\/ RaisedOnProcess /\ last'.id \notin Pids
         \/ RaisedOnThread /\ last'.id \notin Tids)
        => last'.ret = "ESRCH" /\ QueuesUnchanged ]_vars

\* kill(2, SIGKILL) has returned ESRCH: 2 is a thread id but no process id.
C1_Witness ==
    last = [op |-> "kill", id |-> 2, sig |-> SIGKILL, ret |-> "ESRCH"]

\* C2: kill(pid, 0) on a known pid succeeds and changes no pending queue,
\* whatever the threads block.
C2_ProbeOnProcess ==
    [][ RaisedOnProcess /\ last'.id \in Pids /\ last'.sig = 0
        => last'.ret = "Ok" /\ QueuesUnchanged ]_vars

\* kill(1, 0) has returned Ok while both threads of process 1 block a signal.
C2_Witness ==
    /\ last = [op |-> "kill", id |-> 1, sig |-> 0, ret |-> "Ok"]
    /\ blocked[1] # {} /\ blocked[2] # {}
    /\ threads[1] = << 1, 2 >>

\* C3: tkill(tid, 0) and tgkill(tgid, tid, 0) on a known tid succeed and
\* change no pending queue.
C3_ProbeOnThread ==
    [][ RaisedOnThread /\ last'.id \in Tids /\ last'.sig = 0
        => last'.ret = "Ok" /\ QueuesUnchanged ]_vars

\* C4: a dispatch call on a known target with a signal number below 0 or
\* above 31 fails with EINVAL and changes no pending queue, also where the
\* shifted bit is that of a valid signal.
C4_OutOfRange ==
    [][ /\ Raised
        /\ (RaisedOnProcess => last'.id \in Pids)
        /\ (RaisedOnThread => last'.id \in Tids)
        /\ (last'.sig < 0 \/ last'.sig > 31)
        => last'.ret = "EINVAL" /\ QueuesUnchanged ]_vars

\* tkill(1, 33) has returned EINVAL by a thread that does not block signal
\* 1, the signal whose bit 1 << 33 wraps onto.
C4_Witness ==
    /\ last = [op |-> "tkill", id |-> 1, sig |-> 33, ret |-> "EINVAL"]
    /\ 1 \notin blocked[1]
    /\ shl_one(33) = {1}

\* C5: tkill and tgkill on a known tid with a valid signal succeed and append
\* the signal to that thread's queue, whether or not the thread blocks it.
C5_ThreadAlwaysQueues ==
    [][ RaisedOnThread /\ last'.id \in Tids /\ last'.sig \in ValidSig
        => /\ last'.ret = "Ok"
           /\ pending' = [pending EXCEPT ![last'.id] = Append(@, last'.sig)]
           /\ shared' = shared ]_vars

\* C6: kill on a known pid with a valid signal that some thread of the
\* process does not block succeeds and appends the signal to the queue of the
\* first such thread in enumeration order; nothing else changes.
C6_FirstUnblockedReceives ==
    [][ /\ RaisedOnProcess /\ last'.id \in Pids /\ last'.sig \in ValidSig
        /\ Unblocking(last'.id, last'.sig) # {}
        => LET t == threads[last'.id][Least(Unblocking(last'.id, last'.sig))]
           IN  /\ last'.ret = "Ok"
               /\ pending' = [pending EXCEPT ![t] = Append(@, last'.sig)]
               /\ shared' = shared ]_vars

\* kill(1, SIGUSR1) has returned Ok with thread 1 blocking SIGUSR1 and thread
\* 2 not: the signal is in the queue of thread 2 alone.
C6_Witness ==
    /\ last = [op |-> "kill", id |-> 1, sig |-> SIGUSR1, ret |-> "Ok"]
    /\ threads[1] = << 1, 2 >>
    /\ SIGUSR1 \in blocked[1] /\ SIGUSR1 \notin blocked[2]
    /\ pending[2] = << SIGUSR1 >>
    /\ pending[1] = << >> /\ shared[1] = << >>

\* C7: kill on a known pid with a valid signal that every thread of the
\* process blocks, or on a process without threads, succeeds and appends the
\* signal to the shared queue of the process; no thread's queue changes.
C7_AllBlockedGoesShared ==
    [][ /\ RaisedOnProcess /\ last'.id \in Pids /\ last'.sig \in ValidSig
        /\ Unblocking(last'.id, last'.sig) = {}
        => /\ last'.ret = "Ok"
           /\ shared' = [shared EXCEPT ![last'.id] = Append(@, last'.sig)]
           /\ pending' = pending ]_vars

\* kill(1, SIGUSR1) has returned Ok with both threads of process 1 blocking
\* SIGUSR1, after a kill on process 3, which has no thread: each signal is on
\* the shared queue of its process.
C7_Witness ==
    /\ last = [op |-> "kill", id |-> 1, sig |-> SIGUSR1, ret |-> "Ok"]
    /\ threads[1] = << 1, 2 >> /\ threads[3] = << >>
    /\ SIGUSR1 \in blocked[1] /\ SIGUSR1 \in blocked[2]
    /\ shared[1] = << SIGUSR1 >>
    /\ shared[3] = << SIGKILL >>
    /\ \A t \in Tids : pending[t] = << >>

\* The queues a step has changed.
Grown ==
    {<< "pending", t >> : t \in {u \in Tids : pending'[u] # pending[u]}}
        \cup {<< "shared", p >> : p \in {r \in Pids : shared'[r] # shared[r]}}

\* C8: a dispatch call changes at most one queue, and only by appending one
\* valid signal at its tail; a failed call changes none, and a successful
\* kill with a valid signal appends that signal to exactly one queue.
C8_AppendOnce ==
    [][ Raised
        => /\ \A t \in Tids :
                  \/ pending'[t] = pending[t]
                  \/ \E s \in ValidSig : pending'[t] = Append(pending[t], s)
           /\ \A p \in Pids :
                  \/ shared'[p] = shared[p]
                  \/ \E s \in ValidSig : shared'[p] = Append(shared[p], s)
           /\ Cardinality(Grown) <= 1
           /\ (last'.ret # "Ok" => Grown = {})
           /\ (RaisedOnProcess /\ last'.ret = "Ok" /\ last'.sig \in ValidSig
                  => /\ Cardinality(Grown) = 1
                     /\ \A t \in Tids : pending'[t] # pending[t]
                            => pending'[t] = Append(pending[t], last'.sig)
                     /\ \A p \in Pids : shared'[p] # shared[p]
                            => shared'[p] = Append(shared[p], last'.sig)) ]_vars

\* kill(1, SIGUSR1) has returned Ok and put SIGUSR1 behind the SIGKILL that
\* was already in the queue of thread 1.
C8_Witness ==
    /\ last = [op |-> "kill", id |-> 1, sig |-> SIGUSR1, ret |-> "Ok"]
    /\ pending[1] = << SIGKILL, SIGUSR1 >>

\* The first iteration of check_signals at the trap return of thread t.
TrapReturn(t) == pc[t] = "post_trap" /\ pc'[t] # "post_trap"

\* The signal is neither blocked by t nor resolved to no action.
Deliverable(t, s) ==
    /\ s \notin blocked[t]
    /\ action_at(proc_of(t), s) = "Default"
    /\ DEFAULT_ACTIONS[s + 1] # "Ignore"

\* C9: delivery at the trap return of a thread whose queue holds deliverable
\* signals only takes the front signal, the one raised first, off the queue
\* and delivers it, leaving the later ones for the next trap returns.
C9_FifoDelivery ==
    [][ \A t \in Tids :
          /\ TrapReturn(t)
          /\ pending[t] # << >>
          /\ \A s \in Entries(pending[t]) : Deliverable(t, s)
          => /\ delivered'[t] = Append(delivered[t], Head(pending[t]))
             /\ pending'[t] = Tail(pending[t]) ]_vars

\* C10: a valid signal raised at a thread that blocks it stays in the queue
\* of that thread from the raise on, so that it can be delivered once it is
\* unblocked.
C10_SkipNotDiscard ==
    [][ /\ RaisedOnThread /\ last'.id \in Tids /\ last'.sig \in ValidSig
        /\ last'.sig \in blocked[last'.id]
        => last'.sig \in Entries(pending'[last'.id]) ]_vars

\* How often signal s occurs in queue q.
Count(q, s) == Cardinality({i \in 1..Len(q) : q[i] = s})

\* C11: when a thread whose queue holds signal S once has blocked S with
\* rt_sigprocmask and S is raised at it again, its queue still holds S once.
\* The thread in the post-trap hook is the one whose rt_sigprocmask call was
\* the latest step; the raise is the step of the other running thread.
C11_MaskingIdempotent ==
    [][ \A t \in Tids :
          /\ last.op = "rt_sigprocmask" /\ last.id = SIG_BLOCK
          /\ pc[t] = "post_trap"
          /\ RaisedOnThread /\ last'.id = t
          /\ last'.sig \in sigset_at(last.sig)
          /\ Count(pending[t], last'.sig) = 1
          => Count(pending'[t], last'.sig) = 1 ]_vars

\* The OS action the head of the queue of thread t resolves to.
HeadAction(t) ==
    handle_signal(action_at(proc_of(t), Head(pending[t])), Head(pending[t]))

GroupFanOut(t) ==
    /\ pc[t] = "do_exit_group"
    /\ pc'[t] = "exited"
    /\ exit_args[t][2]

\* C13: when do_exit with group_exit = true has raised SIGKILL at the
\* remaining threads of the process, SIGKILL has been appended to the queue
\* of each of them, whatever the thread blocks.
C13_GroupExitKillsSiblings ==
    [][ \A t \in Tids :
          GroupFanOut(t)
          => \A u \in Entries(threads[proc_of(t)]) :
                 pending'[u] = Append(pending[u], SIGKILL) ]_vars

\* C14: a process is marked exited at most once, it is marked exactly when
\* it has no live thread left, and the step that marks it is the do_exit of
\* its last live thread.
C14_ExitedExactlyOnce ==
    [][ \A p \in Pids :
          /\ proc_exited'[p] \in {0, 1}
          /\ (proc_exited'[p] = 1) = (threads'[p] = << >>)
          /\ proc_exited'[p] # proc_exited[p]
               => \E t \in Tids :
                      /\ proc_of(t) = p
                      /\ threads[p] = << t >>
                      /\ exit_args[t] = << >> /\ exit_args'[t] # << >>
                      /\ \A u \in Tids \ {t} : exit_args'[u] = exit_args[u] ]_vars

\* Threads 1 and 2 have both gone through thr.exit and neither has finished
\* do_exit: one of them was the last, and process 1 has been marked once.
C14_Witness ==
    /\ pc[1] = "do_exit_group" /\ pc[2] = "do_exit_group"
    /\ exit_args[1] # << >> /\ exit_args[2] # << >>
    /\ threads[1] = << >>
    /\ proc_exited[1] = 1

\* C15: once process 1, the process with running threads, is group-exiting
\* and SIGKILL is in the queue of each thread that remains, those threads
\* unwind through the delivery of SIGKILL and exit, and the process is marked
\* exited.
C15_GroupExitCompletes ==
    ( /\ group_exiting[1]
      /\ \A u \in Entries(threads[1]) : SIGKILL \in Entries(pending[u]) )
    ~> ( threads[1] = << >> /\ proc_exited[1] = 1 )

\* C16: a signal on the shared queue of a process is taken off that queue
\* once a thread of the process has unblocked it, unless the process loses
\* all its threads.  Process 1 is the process with running threads, so the
\* caller of rt_sigprocmask is one of its threads.
C16_SharedClaimed ==
    ( /\ last.op = "rt_sigprocmask" /\ last.id = SIG_UNBLOCK
      /\ \E s \in sigset_at(last.sig) : s \in Entries(shared[1]) )
    ~> ( \/ \A s \in UNION {sigset_at(ptr) : ptr \in PtrInputs} :
                s \notin Entries(shared[1])
         \/ threads[1] = << >> )

\* C17: from_u32 returns the signal with that number for 1..31, which are the
\* values of the 31 variants, and None for every other number.
C17_FromNumber ==
    /\ DOMAIN Signal = 1..31
    /\ last.op = "from_u32"
         => last.ret = IF last.sig \in DOMAIN Signal THEN {last.sig} ELSE {}

\* from_u32(31) has returned SIGSYS, the variant with the highest value.
C17_Witness ==
    /\ last = [op |-> "from_u32", id |-> 0, sig |-> 31, ret |-> {31}]
    /\ Signal[31][1] = "SIGSYS"

\* The disposition a category of the doc comments stands for.
category_disposition(c) ==
    CASE c = "Term" -> "Terminate"
      [] c = "Core" -> "CoreDump"
      [] c = "Ign" -> "Ignore"
      [] c = "Stop" -> "Stop"
      [] c = "Cont" -> "Continue"

\* The number of the variant with a name.
number_of(name) == CHOOSE n \in DOMAIN Signal : Signal[n][1] = name

\* C18: for every signal number 1..31 the entry of DEFAULT_ACTIONS is the
\* disposition of the category documented on the variant: SIGKILL and SIGTERM
\* Terminate, SIGSEGV and SIGABRT CoreDump, SIGCHLD, SIGURG and SIGWINCH
\* Ignore, SIGSTOP, SIGTSTP, SIGTTIN and SIGTTOU Stop, SIGCONT Continue.
C18_DefaultsMatchCategories ==
    /\ \A n \in 1..31 :
           DEFAULT_ACTIONS[n + 1] = category_disposition(Signal[n][2])
    /\ \A name \in {"SIGKILL", "SIGTERM"} :
           DEFAULT_ACTIONS[number_of(name) + 1] = "Terminate"
    /\ \A name \in {"SIGSEGV", "SIGABRT"} :
           DEFAULT_ACTIONS[number_of(name) + 1] = "CoreDump"
    /\ \A name \in {"SIGCHLD", "SIGURG", "SIGWINCH"} :
           DEFAULT_ACTIONS[number_of(name) + 1] = "Ignore"
    /\ \A name \in {"SIGSTOP", "SIGTSTP", "SIGTTIN", "SIGTTOU"} :
           DEFAULT_ACTIONS[number_of(name) + 1] = "Stop"
    /\ DEFAULT_ACTIONS[number_of("SIGCONT") + 1] = "Continue"
    /\ last.op = "handle_signal" /\ last.id = "Default" /\ last.sig \in 1..31
         => last.ret = IF Signal[last.sig][2] = "Ign" THEN "None"
                       ELSE category_disposition(Signal[last.sig][2])

\* handle_signal on the Default disposition and SIGCONT has looked entry 18
\* up and returned Continue.
C18_Witness ==
    last = [op |-> "handle_signal", id |-> "Default", sig |-> SIGCONT,
            ret |-> "Continue"]

\* C19: a thread that delivery stops on SIGSTOP is suspended and not
\* terminated: with the matching SIGCONT queued behind the SIGSTOP, it gets
\* back to user mode.
C19_StopThenContinue ==
    \A t \in Tids :
        ( /\ pc[t] = "post_trap"
          /\ pending[t] = << SIGSTOP, SIGCONT >>
          /\ Deliverable(t, SIGSTOP) /\ Deliverable(t, SIGCONT) )
        ~> ( pc[t] = "user" )

\* C20: delivery at the trap return of a thread that is not stopped and whose
\* front signal is deliverable and resolves to Continue does nothing more:
\* check_signals returns and the thread is back in user mode, still live.
C20_ContinueNoOp ==
    [][ \A t \in Tids :
          /\ TrapReturn(t)
          /\ pending[t] # << >>
          /\ Deliverable(t, Head(pending[t]))
          /\ HeadAction(t) = "Continue"
          => /\ pc'[t] = "user"
             /\ threads'[proc_of(t)] = threads[proc_of(t)] ]_vars

\* C21: rt_sigprocmask and rt_sigaction succeed for every argument and
\* change no blocked mask and no entry of an action table; no step does, so
\* every mask is the one of thread creation and every action is Default, the
\* value of process creation.
C21_MaskAndActionsFrozen ==
    [][ /\ last'.op \in {"rt_sigprocmask", "rt_sigaction"}
          => /\ last'.ret = "Ok"
             /\ QueuesUnchanged
             /\ threads' = threads /\ exit_args' = exit_args
        /\ blocked' = blocked
        /\ actions' = actions
        /\ \A p \in Pids, signo \in 0..31 : action_at(p, signo) = "Default" ]_vars

\* Thread 1 does not block SIGUSR1 after its rt_sigprocmask(SIG_BLOCK, set)
\* with SIGUSR1 in the set has returned Ok.
C21_Witness ==
    /\ last = [op |-> "rt_sigprocmask", id |-> SIG_BLOCK, sig |-> 1, ret |-> "Ok"]
    /\ pc[1] = "post_trap" /\ pc[2] = "user"
    /\ SIGUSR1 \in sigset_at(1)
    /\ SIGUSR1 \notin blocked[1]

\* C22: a tgkill(tgid, tid, sig) step returns what tkill(tid, sig) returns
\* and leaves the queues as tkill(tid, sig) leaves them, for every tgid, also
\* one that is not the process of tid.
C22_TgkillIsTkill ==
    [][ last'.op = "tgkill" =>
        \A t \in Tids, tgid \in Pids, tid \in TgkillTids, sig \in TgkillSigs :
          sys_tgkill(t, tgid, tid, sig)
          => LET o == send_signal_thread(tid, sig) IN
             /\ last'.ret = o.ret
             /\ pending' = pending_after(o)
             /\ shared' = shared_after(o)
             /\ \A other \in Pids : sys_tgkill(t, other, tid, sig) ]_vars

\* A tgkill on thread 1 with SIGCONT has returned Ok and queued the signal;
\* the step is the same for tgid 1 and for tgid 3, which does not own thread 1.
C22_Witness ==
    /\ last = [op |-> "tgkill", id |-> 1, sig |-> SIGCONT, ret |-> "Ok"]
    /\ pending[1] = << SIGCONT >>
    /\ proc_of(1) # 3

\* The signal the delivery of thread t has just broken out of its loop with.
Resolved(t) == delivered'[t][Len(delivered'[t])]

\* Thread t's delivery resolves a signal to an action in this step.
Resolves(t) == delivered'[t] # delivered[t]

C25_DeliveryTerminates ==
    \A t \in Tids : (pc[t] = "check_signals") ~> (pc[t] # "check_signals")

\* C26: a thread at its trap return with SIGCHLD, which resolves to no
\* action, in front of SIGKILL in its queue, blocking neither, has SIGCHLD
\* consumed and SIGKILL delivered by that invocation.
C26_IgnoredThenNext ==
    \A t \in Tids :
        ( /\ pc[t] = "post_trap"
          /\ pending[t] = << SIGCHLD, SIGKILL >>
          /\ SIGCHLD \notin blocked[t]
          /\ handle_signal(action_at(proc_of(t), SIGCHLD), SIGCHLD) = "None"
          /\ Deliverable(t, SIGKILL) )
        ~> ( SIGKILL \in Entries(delivered[t]) /\ pending[t] = << >> )

\* C27: delivery at the trap return of a thread whose queue is empty returns
\* to user mode with the actions lock free, calls no do_exit and changes no
\* queue, mask, action or process state.
C27_EmptyQueueReturns ==
    [][ \A t \in Tids :
          TrapReturn(t) /\ pending[t] = << >>
          => /\ pc' = [pc EXCEPT ![t] = "user"]
             /\ actions_lock'[proc_of(t)] = 0
             /\ UNCHANGED << blocked, pending, shared, actions, threads,
                             delivered, exit_args, proc_exited,
                             group_exiting, user_mem, scan >> ]_vars

\* Thread 2 has raised SIGKILL at thread 1 and come back to user mode
\* through delivery on its own empty queue: the lock is free and neither
\* thread has exited.
C27_Witness ==
    /\ pc[1] = "user" /\ pc[2] = "user"
    /\ pending[1] = << SIGKILL >> /\ pending[2] = << >>
    /\ actions_lock[1] = 0
    /\ exit_args[1] = << >> /\ exit_args[2] = << >>
    /\ threads[1] = << 1, 2 >>

\* The OS action with the name of a disposition; Ignore has none.
os_action(disposition) == IF disposition = "Ignore" THEN "None" ELSE disposition

\* C28: for a signal number 1..31 handle_signal gives, on the Default
\* disposition, the OS action of the entry of DEFAULT_ACTIONS, on Ignore
\* none, and on CoreDump, Terminate, Stop and Continue the OS action of that
\* name whatever the number; it never gives Handler.
C28_HandleSignalResolves ==
    last.op = "handle_signal" /\ last.sig \in 1..31
    => /\ last.ret = IF last.id = "Default"
                     THEN os_action(DEFAULT_ACTIONS[last.sig + 1])
                     ELSE os_action(last.id)
       /\ last.ret \in {"None", "CoreDump", "Terminate", "Stop", "Continue"}

\* handle_signal on an explicit Stop disposition and SIGKILL, whose default
\* is Terminate, has returned Stop.
C28_Witness ==
    /\ last = [op |-> "handle_signal", id |-> "Stop", sig |-> SIGKILL,
               ret |-> "Stop"]
    /\ DEFAULT_ACTIONS[SIGKILL + 1] = "Terminate"

\* C29: no entry 0..31 of DEFAULT_ACTIONS is Default, and handle_signal does
\* not reach its panic for any disposition and any index 0..31.
C29_NoDefaultInDefaults ==
    /\ \A signo \in 0..31 : DEFAULT_ACTIONS[signo + 1] # "Default"
    /\ last.op = "handle_signal" => last.ret # "panic"

\* handle_signal on the Default disposition and index 0 has looked entry 0
\* up, found Ignore and returned no action.
C29_Witness ==
    /\ last = [op |-> "handle_signal", id |-> "Default", sig |-> 0,
               ret |-> "None"]
    /\ DEFAULT_ACTIONS[1] = "Ignore"

\* C30: every entry of every thread's queue and of every shared queue is a
\* signal number 1..31, so delivery indexes DEFAULT_ACTIONS and the action
\* table in 1..31 only.
C30_QueuedSignalsValid ==
    /\ \A t \in Tids : Entries(pending[t]) \subseteq ValidSig
    /\ \A p \in Pids : Entries(shared[p]) \subseteq ValidSig
    /\ \A t \in Tids :
           pc[t] = "check_signals" => Head(pending[t]) \in ValidSig

\* tkill(1, 0) has been rejected while the queue of thread 1 holds SIGKILL
\* and thread 1 is in the loop of check_signals on it.
C30_Witness ==
    /\ last = [op |-> "tkill", id |-> 1, sig |-> 0, ret |-> "EINVAL"]
    /\ pending[1] = << SIGKILL >>
    /\ pc[1] = "check_signals"

\* C35: post_trap_callback calls check_signals once for a trap from user
\* mode and not at all for a trap from kernel mode: a callback with
\* from_user = false changes no queue, mask, lock, thread or process state,
\* and a thread enters check_signals, taking the actions lock, only in the
\* step that leaves its trap return, with no iteration of the loop made yet.
C35_DeliveryOncePerUserTrap ==
    [][ /\ last'.op = "post_trap_callback"
           => UNCHANGED << blocked, pending, shared, actions, threads, pc,
                           actions_lock, scan, delivered, exit_args,
                           proc_exited, group_exiting, user_mem >>
        /\ \A t \in Tids :
               /\ actions_lock'[proc_of(t)] = t /\ actions_lock[proc_of(t)] # t
                  => TrapReturn(t) /\ scan[t] = 0 /\ scan'[t] = 1
               /\ TrapReturn(t)
                  => /\ last'.op = "none"
                     /\ actions_lock[proc_of(t)] = 0
                     /\ pc'[t] \in {"user", "check_signals", "do_exit_group",
                                    "panic"} ]_vars

\* A trap from kernel mode has hit thread 1 inside the loop of check_signals
\* on a queue that is not empty, and the callback has returned.
C35_Witness ==
    /\ last = [op |-> "post_trap_callback", id |-> 1, sig |-> 0,
               ret |-> "kernel"]
    /\ pc[1] = "check_signals"
    /\ actions_lock[1] = 1
    /\ pending[1] # << >>

\* The thread lists the fan-out of do_exit is looked at with.
FanOutLists == { << 1 >>, << 2 >>, << 1, 2 >>, << 2, 1 >> }

\* C36: do_exit never returns and always reaches axtask::exit, with and
\* without group_exit: a thread that has called do_exit is from then on
\* inside do_exit or exited, and it does become exited; the fan-out raises
\* SIGKILL at every listed thread that does not block it, whether or not a
\* raise at a thread earlier in the list failed.
C36_ExitNeverReturns ==
    /\ [][ \A t \in Tids :
               exit_args[t] # << >>
               => /\ pc'[t] \in {"do_exit_group", "exited"}
                  /\ exit_args'[t] = exit_args[t] ]_vars
    /\ \A t \in Tids : (pc[t] = "do_exit_group") ~> (pc[t] = "exited")
    /\ [](\A thrs \in FanOutLists : \A t \in Tids :
              kill_each(thrs, 1, pending)[t]
                  = IF t \in Entries(thrs) /\ SIGKILL \notin blocked[t]
                    THEN push_back(pending[t], SIGKILL)
                    ELSE pending[t])

\* Thread 1 has gone through exit_group to its end although the raise of
\* SIGKILL at its sibling, thread 2, which blocks SIGKILL, failed.
C36_Witness ==
    /\ pc[1] = "exited"
    /\ exit_args[1] = << 0, TRUE >>
    /\ SIGKILL \in blocked[2]
    /\ threads[1] = << 2 >>
    /\ pending[2] = << >>
    /\ kill_each(<< 2, 1 >>, 1, pending)[1] = push_back(pending[1], SIGKILL)

\* C37: a process goes Running -> GroupExiting -> Exited: it is never
\* marked group-exiting after it has been marked Exited, the execution where
\* the thread that asks for the group exit is the last live thread included.
C37_GroupExitingBeforeExited ==
    [][ \A p \in Pids :
            group_exiting'[p] /\ ~group_exiting[p] => proc_exited[p] = 0 ]_vars

\* C39: check_signals returns to the trap path only on an empty queue; on
\* a queue that is not empty the invocation goes round its loop, calls
\* do_exit or panics in unimplemented!(), and a return never follows a
\* delivered signal.
C39_ReturnsOnlyFalseOnEmpty ==
    [][ \A t \in Tids :
            pc[t] \in {"post_trap", "check_signals"} /\ pc'[t] # pc[t]
            => /\ pc'[t] = "user"
                  => pending[t] = << >> /\ delivered' = delivered
               /\ pending[t] # << >>
                  => pc'[t] \in {"check_signals", "do_exit_group", "panic"} ]_vars

\* Thread 1 entered check_signals with SIGCONT, which it blocks, at the head
\* of its queue, and ended in the panic of unimplemented!().
C39_Witness ==
    /\ pc[1] = "panic"
    /\ delivered[1] = << SIGCONT >>
    /\ SIGCONT \in blocked[1]
    /\ Head(pending[1]) = SIGCONT

\* C40: do_exit with group_exit = false marks no process group-exiting and
\* changes no pending queue, in its first part and in its last, and marks
\* the process Exited exactly when the caller was its last live thread.
C40_PlainExitFrame ==
    [][ \A t \in Tids :
            /\ exit_args[t] = << >> /\ exit_args'[t] # << >>
               /\ ~exit_args'[t][2]
               => /\ QueuesUnchanged
                  /\ group_exiting' = group_exiting
                  /\ proc_exited' = [proc_exited EXCEPT ![proc_of(t)] =
                         IF threads[proc_of(t)] = << t >> THEN @ + 1 ELSE @]
            /\ pc[t] = "do_exit_group" /\ pc'[t] = "exited"
               /\ ~exit_args[t][2]
               => /\ QueuesUnchanged
                  /\ group_exiting' = group_exiting
                  /\ proc_exited' = proc_exited ]_vars

\* Thread 1 has left through exit(0) while thread 2 lives on: process 1 is
\* neither Exited nor group-exiting and thread 2 has no signal queued.
C40_Witness ==
    /\ pc[1] = "exited"
    /\ exit_args[1] = << 0, FALSE >>
    /\ threads[1] = << 2 >>
    /\ proc_exited[1] = 0
    /\ ~group_exiting[1]
    /\ pending[2] = << >>

\* The queue locks a thread holds: pending locks and shared locks.
HeldQueueLocks(t) ==
    {<< "pending", u >> : u \in {x \in Tids : pending_lock[x] = t}}
        \cup {<< "shared", p >> : p \in {x \in Pids : shared_lock[x] = t}}

\* The thread is inside a dispatch call, send_signal_proc or
\* send_signal_thread, from a syscall or from the fan-out of do_exit.
InDispatch(t) == pc[t] \in {"push_lock", "push_back"}

\* C31: a dispatch call holds at most one queue lock at any moment, the
\* lock of the queue it pushes to, and none before it locks and none once it
\* has returned, with success or with an error.
C31_DispatchOneLock ==
    \A t \in Tids :
        /\ pc[t] = "push_back" => HeldQueueLocks(t) = {frame[t].o.dest}
        /\ pc[t] = "push_lock" => HeldQueueLocks(t) = {}
        /\ pc[t] \in {"user", "post_trap", "fan_out", "exited"}
           => HeldQueueLocks(t) = {}

\* Thread 2 holds the lock of the pending queue of thread 1, and no other,
\* on its way to push SIGKILL, after a kill with an unknown pid failed
\* in thread 1, which holds none.
C31_Witness ==
    /\ pc[2] = "push_back"
    /\ frame[2].o.dest = << "pending", 1 >>
    /\ pending_lock = [t \in Tids |-> IF t = 1 THEN 2 ELSE 0]
    /\ shared_lock = [p \in Pids |-> 0]
    /\ pc[1] = "post_trap"
    /\ last = [op |-> "kill", id |-> -1, sig |-> SIGKILL, ret |-> "ESRCH"]

\* C32: where check_signals holds its thread's pending lock and the
\* actions lock together, it took the pending lock first: it takes the
\* actions lock only with its pending lock in hand, and never its pending
\* lock with the actions lock in hand.
C32_PendingLockFirst ==
    [][ \A t \in Tids :
            /\ actions_lock'[proc_of(t)] = t /\ actions_lock[proc_of(t)] # t
               => pending_lock[t] = t
            /\ pending_lock'[t] = t /\ pending_lock[t] # t
               => actions_lock[proc_of(t)] # t ]_vars

\* C33: check_signals holds neither its thread's pending lock nor the
\* actions lock when it invokes the resolved action: not at the match, and
\* not in do_exit and its fan-out of SIGKILL.
C33_ActionWithoutLocks ==
    \A t \in Tids :
        pc[t] = "match"
        \/ (delivered[t] # << >>
            /\ pc[t] \in {"do_exit_group", "fan_out", "push_lock",
                          "push_back", "panic", "exited"})
        => pending_lock[t] # t /\ actions_lock[proc_of(t)] # t

\* Thread 1 resolved SIGKILL, called do_exit and, in the fan-out, holds the
\* pending lock of thread 2 to push SIGKILL, while thread 2 holds the
\* actions lock in the loop of its own check_signals.
C33_Witness ==
    /\ delivered[1] = << SIGKILL >>
    /\ pc[1] = "push_back"
    /\ frame[1].then = "fan_out"
    /\ pending_lock[2] = 1
    /\ pending_lock[1] = 0
    /\ actions_lock[1] = 2
    /\ pc[2] = "loop"

\* The thread that holds the lock a thread is waiting for, 0 if the thread
\* waits for none or the lock is free.
waits_for(t) ==
    CASE pc[t] = "push_lock" -> lock_holder(frame[t].o.dest)
      [] pc[t] = "post_trap" -> actions_lock[proc_of(t)]
      [] pc[t] = "loop" -> pending_lock[t]
      [] OTHER -> 0

\* C34: no interleaving of dispatch, delivery and do_exit reaches a cycle of
\* threads each waiting for a lock that the next one holds.
C34_NoLockCycle ==
    \A t \in Tids :
        /\ waits_for(t) # t
        /\ waits_for(t) # 0 => waits_for(waits_for(t)) # t
        /\ waits_for(t) # 0 /\ waits_for(waits_for(t)) # 0
           => waits_for(waits_for(waits_for(t))) # t

\* Thread 2 waits for the pending lock of thread 1 to push SIGKILL while
\* thread 1 holds that lock and the actions lock in the body of its loop.
C34_Witness ==
    /\ pc[2] = "push_lock"
    /\ waits_for(2) = 1
    /\ pc[1] = "front"
    /\ actions_lock[1] = 1
    /\ waits_for(1) = 0

\* C38: the actions lock taken by check_signals is held for a bounded
\* number of steps only: a thread that comes to check_signals while a
\* sibling holds the lock does get the lock and enters, whatever the
\* sibling has in its queue.
C38_SiblingGetsActionsLock ==
    \A t \in Tids :
        (pc[t] = "post_trap" /\ actions_lock[proc_of(t)] \notin {0, t})
            ~> (pc[t] # "post_trap")

====
